---- MODULE Spec2Model ----
(***************************************************************************)
(* express-plate: the user routes (register, login, refresh, logout,       *)
(* profile, admin reads, profile update, password change, deletions), the  *)
(* authenticate / authorize middlewares, the JWT service and the account   *)
(* store behind the TypeORM repository.                                    *)
(*                                                                         *)
(* One action per route: it runs the route's middleware chain and its      *)
(* handler to the response, which the client then receives (Receive).      *)
(* Writes the handlers start without awaiting (userRepository.save /       *)
(* delete with no await) are left in `inflight` and land in a later turn   *)
(* of the event loop (StoreApply).                                         *)
(***************************************************************************)
EXTENDS Integers, Sequences, FiniteSets, TLC

VARIABLES
    users,      \* rows of the user table
    nextId,     \* next value of the id sequence (PrimaryGeneratedColumn)
    inflight,   \* the repository write started without await, if any
    now,        \* clock, in seconds
    ticks,      \* number of clock advances so far
    bearer,     \* access token kept by the client
    jar,        \* refresh token kept in the client's cookie jar
    last,       \* the request being answered and its response, or Idle
    probe       \* the input of a function run on its own (SpecPw, SpecRole,
                \* SpecAuthorize, SpecErrors); the requests under way in
                \* SpecRace

vars == <<users, nextId, inflight, now, ticks, bearer, jar, last, probe>>

----------------------------------------------------------------------------
(* Bounds of the model *)

MaxId == 2
MaxTicks == 2
MaxFill == 7
MaxTail == 3

(* Program constants *)

AccessLife == 3600
RefreshLife == 604800
MinLength == 8

----------------------------------------------------------------------------
(* JavaScript values *)

Undefined == <<"undefined">>

\* !x for a string field of the request body ("" and a missing field are both falsy)
Truthy(s) == s # ""

\* !x for a password field (a sequence of characters, or undefined)
TruthyText(x) == x # <<>> /\ x # Undefined

\* String(undefined), what RegExp.prototype.test coerces a missing value to
UndefinedText == <<"u", "n", "d", "e", "f", "i", "n", "e", "d">>

ToText(x) == IF x = Undefined THEN UndefinedText ELSE x

\* the spellings of "admin" and of "user" in every letter case
AdminSpellings ==
    {"ADMIN", "ADMIn", "ADMiN", "ADMin", "ADmIN", "ADmIn", "ADmiN",
     "ADmin", "AdMIN", "AdMIn", "AdMiN", "AdMin", "AdmIN", "AdmIn",
     "AdmiN", "Admin", "aDMIN", "aDMIn", "aDMiN", "aDMin", "aDmIN",
     "aDmIn", "aDmiN", "aDmin", "adMIN", "adMIn", "adMiN", "adMin",
     "admIN", "admIn", "admiN", "admin"}

UserSpellings ==
    {"USER", "USEr", "USeR", "USer", "UsER", "UsEr", "UseR", "User",
     "uSER", "uSEr", "uSeR", "uSer", "usER", "usEr", "useR", "user"}

toLowerCase(s) ==
    CASE s \in AdminSpellings -> "admin"
      [] s \in UserSpellings -> "user"
      [] s \in {"ROOT", "root"} -> "root"
      [] OTHER -> s

toUpperCase(s) ==
    CASE s \in AdminSpellings -> "ADMIN"
      [] s \in UserSpellings -> "USER"
      [] s \in {"ROOT", "root"} -> "ROOT"
      [] OTHER -> s

----------------------------------------------------------------------------
(* Role *)

Role == {"ADMIN", "USER"}

isRoleAnyCase(value) == toUpperCase(value) \in Role

isRole(value) == value \in Role

\* a JavaScript value handed to isRole / toRole: a string, null or
\* undefined, with the text a template literal renders it as
Str(text) == [type |-> "string", text |-> text]

JsNull == [type |-> "null", text |-> "null"]

JsUndefined == [type |-> "undefined", text |-> "undefined"]

\* Object.values(Role).includes(value)
isRoleValue(v) == v.type = "string" /\ isRole(v.text)

\* toRole(value): the Role returned, or the message of the Error thrown
toRole(v) ==
    IF isRoleValue(v)
    THEN [returned |-> v.text, thrown |-> <<>>]
    ELSE [returned |-> "", thrown |-> <<"Unknown role : ", v.text>>]

----------------------------------------------------------------------------
(* Password policy *)

Letters == {"P", "a", "s", "w", "r", "d", "h", "o", "t", "u", "n", "e", "f", "i"}
Digits == {"0", "1"}
PolicySymbols == {"!", "#", "$", "%", "&", "?", " ", "\""}
LineTerminators == {"\n", "\r"}

\* `.` of the regular expression: any character but a line terminator
Dots(s, i, j) == \A k \in i..j : s[k] \notin LineTerminators

\* (?=.*[class]) tried at offset p
Ahead(s, p, class) ==
    \E q \in (p + 1)..Len(s) : s[q] \in class /\ Dots(s, p + 1, q - 1)

passwordRegexWithAt(s) ==
    \E p \in 0..Len(s) :
        /\ Dots(s, 1, p)
        /\ p + MinLength <= Len(s) /\ Dots(s, p + 1, p + MinLength)
        /\ Ahead(s, p, Letters)
        /\ Ahead(s, p, Digits)
        /\ Ahead(s, p, PolicySymbols \cup {"@"})
        /\ Dots(s, p + 1, Len(s))

\* /^.*(?=.{8,})(?=.*[a-zA-Z])(?=.*\d)(?=.*[!#$%&? "]).*$/.test(s)
passwordRegex(s) ==
    \E p \in 0..Len(s) :
        /\ Dots(s, 1, p)
        /\ p + MinLength <= Len(s) /\ Dots(s, p + 1, p + MinLength)
        /\ Ahead(s, p, Letters)
        /\ Ahead(s, p, Digits)
        /\ Ahead(s, p, PolicySymbols)
        /\ Dots(s, p + 1, Len(s))

passwordRegexTest(x) == passwordRegex(ToText(x))

----------------------------------------------------------------------------
(* Credential hasher (bcrypt) *)

bcryptHash(pw) == <<"$2b$">> \o pw

bcryptCompare(pw, hash) == hash = bcryptHash(pw)


\* bcrypt.compare rejects when an argument is missing
bcryptThrows(pw) == pw = Undefined

----------------------------------------------------------------------------
(* Errors and the error handler *)

AppError(statusCode) == [app |-> TRUE, statusCode |-> statusCode]

PlainError == [app |-> FALSE, statusCode |-> 0]

\* status of the response the error handler sends for err
errorHandler(err) == IF err.app THEN err.statusCode ELSE 500

----------------------------------------------------------------------------
(* Account store: the user table behind userRepository *)

Null == [id |-> 0, name |-> "", email |-> "", password |-> <<>>, role |-> ""]

\* a write started without await, answered with status `answered`
NoOp == [kind |-> "none", user |-> Null, answered |-> 0]

Write(kind, user, answered) ==
    [kind |-> kind, user |-> user, answered |-> answered]

Found(rows) == IF rows = {} THEN Null ELSE CHOOSE u \in rows : TRUE

findOneById(rows, id) == Found({u \in rows : u.id = id})

findOneByName(rows, name) == Found({u \in rows : u.name = name})

findOneByEmail(rows, email) == Found({u \in rows : u.email = email})

\* the unique columns of the User entity
UniqueNoEmail(rows, u) == \A v \in rows : v.id # u.id => v.name # u.name

Unique(rows, u) ==
    \A v \in rows : v.id # u.id => (v.name # u.name /\ v.email # u.email)

\* userRepository.save(u): insert or update by id; the table rejects a row
\* that repeats another row's name or email
StoreSave(rows, u) ==
    IF Unique(rows, u)
    THEN [ok |-> TRUE, rows |-> {v \in rows : v.id # u.id} \cup {u}]
    ELSE [ok |-> FALSE, rows |-> rows]

\* userRepository.delete(id)
StoreDelete(rows, id) == {v \in rows : v.id # id}

----------------------------------------------------------------------------
(* Token service *)

SECRET == "JWT_SECRET"
REFRESH_SECRET == "JWT_REFRESH_SECRET"

NoTok == [sig |-> "none", id |-> 0, name |-> "", role |-> "", exp |-> 0]

NoUser == [id |-> 0, name |-> "", role |-> ""]

Payload(u) == [id |-> u.id, name |-> u.name, role |-> u.role]

jwtSign(payload, secret, expiresIn, t) ==
    [sig |-> secret, id |-> payload.id, name |-> payload.name,
     role |-> payload.role, exp |-> t + expiresIn]

\* jwt.verify: the signature must be made with secret, and t < exp
jwtVerifyInclusive(tok, secret, t) == tok.sig = secret /\ t <= tok.exp

jwtVerifyAnySecret(tok, secret, t) == tok.sig # "none" /\ t < tok.exp

jwtVerify(tok, secret, t) == tok.sig = secret /\ t < tok.exp

generateAccessToken(payload, t) == jwtSign(payload, SECRET, AccessLife, t)

generateRefreshToken(payload, t) ==
    jwtSign(payload, REFRESH_SECRET, RefreshLife, t)

verifyAccessToken(tok, t) ==
    IF jwtVerify(tok, SECRET, t)
    THEN [ok |-> TRUE, err |-> PlainError, decoded |-> Payload(tok)]
    ELSE [ok |-> FALSE, err |-> AppError(401), decoded |-> NoUser]

verifyRefreshTokenNoExpiry(tok, t) ==
    IF tok.sig = REFRESH_SECRET
    THEN [ok |-> TRUE, err |-> PlainError, decoded |-> Payload(tok)]
    ELSE [ok |-> FALSE, err |-> AppError(401), decoded |-> NoUser]

verifyRefreshToken(tok, t) ==
    IF jwtVerify(tok, REFRESH_SECRET, t)
    THEN [ok |-> TRUE, err |-> PlainError, decoded |-> Payload(tok)]
    ELSE [ok |-> FALSE, err |-> AppError(401), decoded |-> NoUser]

----------------------------------------------------------------------------
(* Middlewares *)

\* next() with no argument
NoError == [app |-> TRUE, statusCode |-> 0]

NoHeader == [scheme |-> "", tok |-> NoTok]

\* what findOne never returns: it answers null for a missing row
UndefinedRow == [id |-> -1, name |-> "", email |-> "", password |-> <<>>, role |-> ""]

\* an async function's result at the call site: a pending Promise
Promise(value) == [object |-> "Promise", resolves |-> value]

\* JavaScript `!x`: an object, a Promise included, is truthy
Not(x) == IF x.object = "Promise" THEN FALSE ELSE ~x.resolves

\* async checkUserExist(userId): findOne(...) !== undefined
checkUserExist(rows, userId) ==
    Promise(findOneById(rows, userId) # UndefinedRow)

authenticateFromStore(header, rows, t) ==
    IF header.scheme # "Bearer"
    THEN [next |-> AppError(401), user |-> NoUser]
    ELSE LET v == verifyAccessToken(header.tok, t)
         IN IF ~v.ok
            THEN [next |-> v.err, user |-> NoUser]
            ELSE IF findOneById(rows, v.decoded.id) = Null
                 THEN [next |-> NoError, user |-> v.decoded]
                 ELSE [next |-> NoError,
                       user |-> Payload(findOneById(rows, v.decoded.id))]

authenticateAnyScheme(header, rows, t) ==
    LET v == verifyAccessToken(header.tok, t)
    IN IF ~v.ok
       THEN [next |-> v.err, user |-> NoUser]
       ELSE [next |-> NoError, user |-> v.decoded]

\* authenticate(req, res, next): the argument of its one next(...) call and
\* the identity it leaves in req.user
authenticate(header, rows, t) ==
    IF header.scheme # "Bearer"
    THEN [next |-> AppError(401), user |-> NoUser]
    ELSE LET v == verifyAccessToken(header.tok, t)
         IN IF ~v.ok
            THEN [next |-> v.err, user |-> NoUser]
            ELSE IF Not(checkUserExist(rows, v.decoded.id))
                 THEN [next |-> AppError(401), user |-> NoUser]
                 ELSE [next |-> NoError, user |-> v.decoded]

includesInverted(allowedRoles, role) ==
    ~(\E i \in 1..Len(allowedRoles) : allowedRoles[i] = role)

\* allowedRoles.includes(role); the forEach before it assigns to its own
\* parameter and leaves the array as declared
includes(allowedRoles, role) ==
    \E i \in 1..Len(allowedRoles) : allowedRoles[i] = role

\* authorize(allowedRoles)(req, res, next): the arguments of its next(...)
\* calls in order; reading req.user.role of a missing user throws, and the
\* router passes what a middleware throws to next
authorize(allowedRoles, user) ==
    IF user = NoUser
    THEN <<AppError(401), PlainError>>
    ELSE IF ~includes(allowedRoles, toLowerCase(user.role))
         THEN <<AppError(403), NoError>>
         ELSE <<NoError>>

\* The route's handler chain: the router holds one position per request, so
\* the first next(...) of a middleware decides; on an error it walks past
\* the rest of the chain to the error handler, and a later next() finds the
\* chain used up.
Dispatch(calls) == calls[1]

----------------------------------------------------------------------------
(* Handlers of src/services/UserService.ts.  st is what the handler reads:  *)
(* [users, nextId, inflight, now]; the result is the response and what the  *)
(* handler leaves behind.                                                   *)

\* select: [...] of a find, and the fields an object literal copies: the
\* row with every other column left out
Select(row, columns) ==
    [c \in DOMAIN Null |-> IF c \in columns THEN row[c] ELSE Null[c]]

\* data is the set of user objects in the response body
Reply(st, status, access, refresh, cookie) ==
    [status |-> status, users |-> st.users, nextId |-> st.nextId,
     inflight |-> st.inflight, access |-> access, refresh |-> refresh,
     cookie |-> cookie, data |-> {}]

\* catch (error) { next(error) }: the error handler answers
Fail(st, err) == Reply(st, errorHandler(err), NoTok, NoTok, "none")

login(user, t) ==
    [accessToken |-> generateAccessToken(Payload(user), t),
     refreshToken |-> generateRefreshToken(Payload(user), t)]

prepareTokens(st, status, user) ==
    LET tk == login(user, st.now)
    IN [Reply(st, status, tk.accessToken, tk.refreshToken, "set") EXCEPT
            !.data = {Select(user, {"id", "name", "role"})}]

testCredentialsNoCompare(rows, name, email, password) ==
    LET user == IF Truthy(email) THEN findOneByEmail(rows, email)
                ELSE findOneByName(rows, name)
    IN IF user = Null
       THEN [err |-> AppError(404), user |-> Null]
       ELSE [err |-> NoError, user |-> user]

testCredentials(rows, name, email, password) ==
    LET user == IF Truthy(email) THEN findOneByEmail(rows, email)
                ELSE findOneByName(rows, name)
    IN IF user = Null
       THEN [err |-> AppError(404), user |-> Null]
       ELSE IF bcryptThrows(password)
            THEN [err |-> PlainError, user |-> Null]
            ELSE IF ~bcryptCompare(password, user.password)
                 THEN [err |-> AppError(401), user |-> Null]
                 ELSE [err |-> NoError, user |-> user]

createUserTakesRole(st, body) ==
    IF ~Truthy(body.name) \/ ~Truthy(body.email) \/ ~TruthyText(body.password)
    THEN Fail(st, AppError(400))
    ELSE IF findOneByEmail(st.users, body.email) # Null
    THEN Fail(st, AppError(409))
    ELSE IF findOneByName(st.users, body.name) # Null
    THEN Fail(st, AppError(409))
    ELSE IF ~passwordRegexTest(body.password)
    THEN Fail(st, AppError(400))
    ELSE LET user == [id |-> st.nextId, name |-> body.name,
                      email |-> body.email,
                      password |-> bcryptHash(body.password),
                      role |-> IF isRole(toUpperCase(body.role))
                               THEN toUpperCase(body.role) ELSE "USER"]
             saved == StoreSave(st.users, user)
         IN IF ~saved.ok
            THEN [Fail(st, PlainError) EXCEPT !.nextId = st.nextId + 1]
            ELSE [prepareTokens(st, 201, user) EXCEPT
                      !.users = saved.rows, !.nextId = st.nextId + 1]

createUserNoNameCheck(st, body) ==
    IF ~Truthy(body.name) \/ ~Truthy(body.email) \/ ~TruthyText(body.password)
    THEN Fail(st, AppError(400))
    ELSE IF findOneByEmail(st.users, body.email) # Null
    THEN Fail(st, AppError(409))
    ELSE IF ~passwordRegexTest(body.password)
    THEN Fail(st, AppError(400))
    ELSE LET user == [id |-> st.nextId, name |-> body.name,
                      email |-> body.email,
                      password |-> bcryptHash(body.password), role |-> "USER"]
             saved == StoreSave(st.users, user)
         IN IF ~saved.ok
            THEN [Fail(st, PlainError) EXCEPT !.nextId = st.nextId + 1]
            ELSE [prepareTokens(st, 201, user) EXCEPT
                      !.users = saved.rows, !.nextId = st.nextId + 1]

createUser(st, body) ==
    IF ~Truthy(body.name) \/ ~Truthy(body.email) \/ ~TruthyText(body.password)
    THEN Fail(st, AppError(400))
    ELSE IF findOneByEmail(st.users, body.email) # Null
    THEN Fail(st, AppError(409))
    ELSE IF findOneByName(st.users, body.name) # Null
    THEN Fail(st, AppError(409))
    ELSE IF ~passwordRegexTest(body.password)
    THEN Fail(st, AppError(400))
    ELSE LET user == [id |-> st.nextId, name |-> body.name,
                      email |-> body.email,
                      password |-> bcryptHash(body.password), role |-> "USER"]
             saved == StoreSave(st.users, user)
         IN IF ~saved.ok
            THEN [Fail(st, PlainError) EXCEPT !.nextId = st.nextId + 1]
            ELSE [prepareTokens(st, 201, user) EXCEPT
                      !.users = saved.rows, !.nextId = st.nextId + 1]

loginUser(st, body) ==
    IF ~TruthyText(body.password) \/ (~Truthy(body.name) /\ ~Truthy(body.email))
    THEN Fail(st, AppError(400))
    ELSE LET c == testCredentials(st.users, body.name, body.email, body.password)
         IN IF c.err # NoError
            THEN Fail(st, c.err)
            ELSE prepareTokens(st, 200, c.user)

\* path of the refreshToken cookie, as res.cookie sets it and as
\* res.clearCookie names it
prepareTokens_path == "/users/refresh"

logoutUser_path == "/users/refresh"

logoutUserKeepsCookie(st) == Reply(st, 200, NoTok, NoTok, "none")

logoutUser(st) == Reply(st, 200, NoTok, NoTok, "clear")

refreshTokenFromStore(st, cookie) ==
    IF cookie = NoTok
    THEN Fail(st, AppError(400))
    ELSE LET v == verifyRefreshToken(cookie, st.now)
         IN IF ~v.ok
            THEN Fail(st, v.err)
            ELSE IF findOneById(st.users, v.decoded.id) = Null
                 THEN Fail(st, AppError(404))
                 ELSE Reply(st, 200,
                            generateAccessToken(
                                Payload(findOneById(st.users, v.decoded.id)),
                                st.now),
                            NoTok, "none")

refreshTokenRotating(st, cookie) ==
    IF cookie = NoTok
    THEN Fail(st, AppError(400))
    ELSE LET v == verifyRefreshToken(cookie, st.now)
         IN IF ~v.ok
            THEN Fail(st, v.err)
            ELSE Reply(st, 200, generateAccessToken(v.decoded, st.now),
                       generateRefreshToken(v.decoded, st.now), "set")

refreshToken(st, cookie) ==
    IF cookie = NoTok
    THEN Fail(st, AppError(400))
    ELSE LET v == verifyRefreshToken(cookie, st.now)
         IN IF ~v.ok
            THEN Fail(st, v.err)
            ELSE Reply(st, 200, generateAccessToken(v.decoded, st.now),
                       NoTok, "none")

getProfile(st, user) ==
    IF user.id = 0
    THEN Fail(st, AppError(401))
    ELSE IF findOneById(st.users, user.id) = Null
         THEN Fail(st, AppError(404))
         ELSE [Reply(st, 200, NoTok, NoTok, "none") EXCEPT
                   !.data = {Select(findOneById(st.users, user.id),
                                    {"id", "name", "email", "role"})}]

getAllUserWithPassword(st) ==
    [Reply(st, 200, NoTok, NoTok, "none") EXCEPT
         !.data = {Select(u, {"id", "name", "email", "password", "role"}) :
                       u \in st.users}]

getAllUser(st) ==
    [Reply(st, 200, NoTok, NoTok, "none") EXCEPT
         !.data = {Select(u, {"id", "name", "email", "role"}) : u \in st.users}]

getUser(st, id) ==
    IF findOneById(st.users, id) = Null
    THEN Fail(st, AppError(404))
    ELSE [Reply(st, 200, NoTok, NoTok, "none") EXCEPT
              !.data = {Select(findOneById(st.users, id), {"id", "name", "role"})}]

PatchWhole(row, body) ==
    [row EXCEPT !.email = body.email, !.name = body.name,
                !.role = IF isRole(toUpperCase(body.role))
                         THEN toUpperCase(body.role) ELSE @]

\* the fields of the body that are present overwrite the row's
Patch(row, body) ==
    [row EXCEPT
        !.email = IF Truthy(body.email) THEN body.email ELSE @,
        !.name = IF Truthy(body.name) THEN body.name ELSE @,
        !.role = IF Truthy(body.role) /\ isRole(toUpperCase(body.role))
                 THEN toUpperCase(body.role) ELSE @]

updateUserNamedInBody(st, user, body) ==
    IF user.id = 0
    THEN Fail(st, AppError(401))
    ELSE LET named == findOneByName(st.users, body.name)
             row == IF named # Null THEN named ELSE findOneById(st.users, user.id)
         IN IF row = Null
            THEN Fail(st, AppError(404))
            ELSE [prepareTokens(st, 200, Patch(row, body)) EXCEPT
                      !.inflight = Write("save", Patch(row, body), 200)]

updateUser(st, user, body) ==
    IF user.id = 0
    THEN Fail(st, AppError(401))
    ELSE LET row == findOneById(st.users, user.id)
         IN IF row = Null
            THEN Fail(st, AppError(404))
            ELSE [prepareTokens(st, 200, Patch(row, body)) EXCEPT
                      !.inflight = Write("save", Patch(row, body), 200)]

updatePasswordStoresRaw(st, user, body) ==
    IF user.id = 0
    THEN Fail(st, AppError(401))
    ELSE LET row == findOneById(st.users, user.id)
             changed == [row EXCEPT !.password = body.newPassword]
         IN IF row = Null
            THEN Fail(st, AppError(404))
            ELSE IF bcryptThrows(body.password)
            THEN Fail(st, PlainError)
            ELSE IF ~bcryptCompare(body.password, row.password)
            THEN Fail(st, AppError(401))
            ELSE IF ~passwordRegexTest(body.newPassword)
            THEN Fail(st, AppError(400))
            ELSE [prepareTokens(st, 200, changed) EXCEPT
                      !.inflight = Write("save", changed, 200)]

updatePasswordNoPolicy(st, user, body) ==
    IF user.id = 0
    THEN Fail(st, AppError(401))
    ELSE LET row == findOneById(st.users, user.id)
             changed == [row EXCEPT !.password = bcryptHash(ToText(body.newPassword))]
         IN IF row = Null
            THEN Fail(st, AppError(404))
            ELSE IF bcryptThrows(body.password)
            THEN Fail(st, PlainError)
            ELSE IF ~bcryptCompare(body.password, row.password)
            THEN Fail(st, AppError(401))
            ELSE [prepareTokens(st, 200, changed) EXCEPT
                      !.inflight = Write("save", changed, 200)]

updatePasswordNoCompare(st, user, body) ==
    IF user.id = 0
    THEN Fail(st, AppError(401))
    ELSE LET row == findOneById(st.users, user.id)
             changed == [row EXCEPT !.password = bcryptHash(body.newPassword)]
         IN IF row = Null
            THEN Fail(st, AppError(404))
            ELSE IF bcryptThrows(body.password)
            THEN Fail(st, PlainError)
            ELSE IF ~passwordRegexTest(body.newPassword)
            THEN Fail(st, AppError(400))
            ELSE [prepareTokens(st, 200, changed) EXCEPT
                      !.inflight = Write("save", changed, 200)]

updatePassword(st, user, body) ==
    IF user.id = 0
    THEN Fail(st, AppError(401))
    ELSE LET row == findOneById(st.users, user.id)
             changed == [row EXCEPT !.password = bcryptHash(body.newPassword)]
         IN IF row = Null
            THEN Fail(st, AppError(404))
            ELSE IF bcryptThrows(body.password)
            THEN Fail(st, PlainError)
            ELSE IF ~bcryptCompare(body.password, row.password)
            THEN Fail(st, AppError(401))
            ELSE IF ~passwordRegexTest(body.newPassword)
            THEN Fail(st, AppError(400))
            ELSE [prepareTokens(st, 200, changed) EXCEPT
                      !.inflight = Write("save", changed, 200)]

deleteUserNoCompare(st, user, body) ==
    IF user.id = 0
    THEN Fail(st, AppError(401))
    ELSE LET row == findOneById(st.users, user.id)
         IN IF row = Null
            THEN Fail(st, AppError(404))
            ELSE IF bcryptThrows(body.password)
            THEN Fail(st, PlainError)
            ELSE [Reply(st, 200, NoTok, NoTok, "clear") EXCEPT
                      !.inflight = Write("delete", row, 200)]

deleteUser(st, user, body) ==
    IF user.id = 0
    THEN Fail(st, AppError(401))
    ELSE LET row == findOneById(st.users, user.id)
         IN IF row = Null
            THEN Fail(st, AppError(404))
            ELSE IF bcryptThrows(body.password)
            THEN Fail(st, PlainError)
            ELSE IF ~bcryptCompare(body.password, row.password)
            THEN Fail(st, AppError(401))
            ELSE [Reply(st, 200, NoTok, NoTok, "clear") EXCEPT
                      !.inflight = Write("delete", row, 200)]

deleteUserById(st, id) ==
    LET row == findOneById(st.users, id)
    IN IF row = Null
       THEN Fail(st, AppError(404))
       ELSE [Reply(st, 200, NoTok, NoTok, "none") EXCEPT
                 !.inflight = Write("delete", row, 200)]

----------------------------------------------------------------------------
(* The class UserService of src/modules/user/user.service.ts and the        *)
(* controller method in front of it.  A service method yields the error it  *)
(* throws or the user it returns, and the rows it leaves.                   *)

\* this.passwordRegex of the class: the symbols of its class include '@'
UserService_passwordRegex(s) ==
    \E p \in 0..Len(s) :
        /\ Dots(s, 1, p)
        /\ p + MinLength <= Len(s) /\ Dots(s, p + 1, p + MinLength)
        /\ Ahead(s, p, Letters)
        /\ Ahead(s, p, Digits)
        /\ Ahead(s, p, PolicySymbols \cup {"@"})
        /\ Dots(s, p + 1, Len(s))

Thrown(err, rows) == [err |-> err, user |-> Null, rows |-> rows]

UserService_updatePasswordSameAllowed(rows, id, oldPassword, newPassword) ==
    LET row == findOneById(rows, id)
        changed == [row EXCEPT !.password = bcryptHash(newPassword)]
        saved == StoreSave(rows, changed)
    IN IF row = Null THEN Thrown(AppError(404), rows)
       ELSE IF bcryptThrows(oldPassword) THEN Thrown(PlainError, rows)
       ELSE IF ~bcryptCompare(oldPassword, row.password)
       THEN Thrown(AppError(401), rows)
       ELSE IF ~UserService_passwordRegex(ToText(newPassword))
       THEN Thrown(AppError(400), rows)
       ELSE IF ~saved.ok THEN Thrown(PlainError, rows)
       ELSE [err |-> NoError, user |-> changed, rows |-> saved.rows]

\* UserService.updatePassword(id, oldPassword, newPassword)
UserService_updatePassword(rows, id, oldPassword, newPassword) ==
    LET row == findOneById(rows, id)
        changed == [row EXCEPT !.password = bcryptHash(newPassword)]
        saved == StoreSave(rows, changed)
    IN IF oldPassword = newPassword THEN Thrown(AppError(405), rows)
       ELSE IF row = Null THEN Thrown(AppError(404), rows)
       ELSE IF bcryptThrows(oldPassword) THEN Thrown(PlainError, rows)
       ELSE IF ~bcryptCompare(oldPassword, row.password)
       THEN Thrown(AppError(401), rows)
       ELSE IF ~UserService_passwordRegex(ToText(newPassword))
       THEN Thrown(AppError(400), rows)
       ELSE IF ~saved.ok THEN Thrown(PlainError, rows)
       ELSE [err |-> NoError, user |-> changed, rows |-> saved.rows]

\* UserController.updatePassword(req, res, next); the body's oldPassword is
\* carried in the request's password field
UserController_updatePassword(st, user, body) ==
    IF user.id = 0
    THEN Fail(st, AppError(401))
    ELSE LET r == UserService_updatePassword(st.users, user.id, body.password,
                                             body.newPassword)
         IN IF r.err # NoError
            THEN Fail(st, r.err)
            ELSE [prepareTokens(st, 200, r.user) EXCEPT !.users = r.rows]

----------------------------------------------------------------------------
(* Requests *)

Names == {"alice", "bob"}
Emails == {"alice@x.com", "bob@x.com"}
RoleInputs == {"admin", "USER", "root"}

Passw0rd == <<"P", "a", "s", "s", "w", "0", "r", "d", "!">>
Hotdog == <<"h", "o", "t", "d", "o", "t", "1", "#">>
Short1 == <<"s", "h", "o", "r", "t", "1">>

NoBody ==
    [name |-> "", email |-> "", password |-> Undefined,
     newPassword |-> Undefined, role |-> ""]

\* name and email both given, or one of them missing
Identifiers ==
    (Names \X Emails) \cup (Names \X {""}) \cup ({""} \X Emails)

RegisterBodies ==
    {[NoBody EXCEPT !.name = n, !.email = e, !.password = p] :
        n \in Names, e \in Emails, p \in {Passw0rd, Short1}}
        \cup {[NoBody EXCEPT !.name = "alice", !.email = "alice@x.com"],
              [NoBody EXCEPT !.name = "alice", !.password = Passw0rd],
              [NoBody EXCEPT !.email = "alice@x.com", !.password = Passw0rd]}

LoginBodies ==
    {[NoBody EXCEPT !.name = ne[1], !.email = ne[2], !.password = p] :
        ne \in Identifiers, p \in {Passw0rd, Hotdog}}
        \cup {[NoBody EXCEPT !.name = "alice"], [NoBody EXCEPT !.password = Passw0rd]}

\* any of name and email, or a role alone, or all three
UpdateBodies ==
    {[NoBody EXCEPT !.name = n, !.email = e] :
        n \in Names \cup {""}, e \in Emails \cup {""}}
        \cup {[NoBody EXCEPT !.role = r] : r \in RoleInputs}
        \cup {[NoBody EXCEPT !.name = "bob", !.email = "bob@x.com", !.role = "admin"]}

PasswordBodies ==
    {[NoBody EXCEPT !.password = p, !.newPassword = q] :
        p \in {Passw0rd, Hotdog}, q \in {Passw0rd, Hotdog, Short1}}
        \cup {NoBody}

DeleteBodies == {[NoBody EXCEPT !.password = p] : p \in {Passw0rd, Hotdog, Undefined}}

\* Authorization headers a client can send: none, another scheme, or
\* "Bearer " followed by a token it holds (its refresh token is signed with
\* the other secret)
Headers ==
    {NoHeader, [scheme |-> "Basic", tok |-> bearer]}
        \cup {[scheme |-> "Bearer", tok |-> t] : t \in {bearer, jar}}

Cookies == {NoTok, jar, bearer}

St == [users |-> users, nextId |-> nextId, inflight |-> inflight, now |-> now]

Idle ==
    [op |-> "none", hdr |-> NoHeader, cookieIn |-> NoTok, body |-> NoBody,
     id |-> 0, status |-> 0, user |-> NoUser, ran |-> FALSE, pre |-> {},
     access |-> NoTok, refresh |-> NoTok, cookie |-> "none", data |-> {}]

\* The middleware chain of a route declared in the router: authenticate,
\* then authorize(allowedRoles) when the route declares it (guarded)
Chain(header, guarded, allowedRoles) ==
    LET a == authenticate(header, users, now)
    IN IF a.next # NoError
       THEN [error |-> a.next, user |-> a.user, ran |-> FALSE]
       ELSE IF ~guarded
            THEN [error |-> NoError, user |-> a.user, ran |-> TRUE]
            ELSE LET d == Dispatch(authorize(allowedRoles, a.user))
                 IN [error |-> d, user |-> a.user, ran |-> d = NoError]

Open == [error |-> NoError, user |-> NoUser, ran |-> TRUE]

\* the requests served while a write is in flight
Overlapping == {"login", "getProfile"}

\* The request is answered: the store takes what the handler did and the
\* response is on its way
Commit(op, req, c, out) ==
    /\ last = Idle
    /\ inflight # NoOp => op \in Overlapping
    /\ out.nextId # nextId => nextId <= MaxId
    /\ users' = out.users
    /\ nextId' = out.nextId
    /\ inflight' = out.inflight
    /\ last' = [op |-> op, hdr |-> req.hdr, cookieIn |-> req.cookieIn,
                body |-> req.body, id |-> req.id, status |-> out.status,
                user |-> c.user, ran |-> c.ran, pre |-> users,
                access |-> out.access, refresh |-> out.refresh,
                cookie |-> out.cookie, data |-> out.data]
    /\ UNCHANGED <<now, ticks, bearer, jar, probe>>

Req(hdr, cookieIn, body, id) ==
    [hdr |-> hdr, cookieIn |-> cookieIn, body |-> body, id |-> id]

\* a request the chain turns away never shows its body to a handler
BodiesFor(c, bodies) == IF c.ran THEN bodies ELSE {NoBody}

\* router.post("/register", registerLimiter, createUser)
Register ==
    \E body \in RegisterBodies :
        Commit("register", Req(NoHeader, NoTok, body, 0), Open,
               createUser(St, body))

\* router.post("/login", loginLimiter, loginUser)
Login ==
    \E body \in LoginBodies :
        Commit("login", Req(NoHeader, NoTok, body, 0), Open,
               loginUser(St, body))

\* router.post("/refresh", refreshLimiter, refreshToken)
Refresh ==
    \E cookieIn \in Cookies :
        Commit("refresh", Req(NoHeader, cookieIn, NoBody, 0), Open,
               refreshToken(St, cookieIn))

\* router.post("/logout", logoutUser)
Logout ==
    \E hdr \in Headers, cookieIn \in Cookies :
        Commit("logout", Req(hdr, cookieIn, NoBody, 0), Open, logoutUser(St))

\* router.get("/", authenticate, authorize(["Admin"]), getAllUser)
GetAllUser ==
    \E hdr \in Headers :
        LET c == Chain(hdr, TRUE, <<"Admin">>)
        IN Commit("getAllUser", Req(hdr, NoTok, NoBody, 0), c,
                  IF c.ran THEN getAllUser(St) ELSE Fail(St, c.error))

\* router.get("/profile", authenticate, getProfile)
GetProfile ==
    \E hdr \in Headers :
        LET c == Chain(hdr, FALSE, <<>>)
        IN Commit("getProfile", Req(hdr, NoTok, NoBody, 0), c,
                  IF c.ran THEN getProfile(St, c.user) ELSE Fail(St, c.error))

\* router.get("/:id", authenticate, authorize(["Admin"]), getUser)
GetUser ==
    \E hdr \in Headers, id \in 1..MaxId :
        LET c == Chain(hdr, TRUE, <<"Admin">>)
        IN Commit("getUser", Req(hdr, NoTok, NoBody, id), c,
                  IF c.ran THEN getUser(St, id) ELSE Fail(St, c.error))

\* router.put("/", authenticate, updateUser)
UpdateUser ==
    \E hdr \in Headers :
        LET c == Chain(hdr, FALSE, <<>>)
        IN \E body \in BodiesFor(c, UpdateBodies) :
            Commit("updateUser", Req(hdr, NoTok, body, 0), c,
                   IF c.ran THEN updateUser(St, c.user, body)
                   ELSE Fail(St, c.error))

\* router.put("/passwordChange", authenticate, updatePassword)
UpdatePassword ==
    \E hdr \in Headers :
        LET c == Chain(hdr, FALSE, <<>>)
        IN \E body \in BodiesFor(c, PasswordBodies) :
            Commit("updatePassword", Req(hdr, NoTok, body, 0), c,
                   IF c.ran THEN updatePassword(St, c.user, body)
                   ELSE Fail(St, c.error))

\* router.delete("/", authenticate, deleteUser)
DeleteUser ==
    \E hdr \in Headers :
        LET c == Chain(hdr, FALSE, <<>>)
        IN \E body \in BodiesFor(c, DeleteBodies) :
            Commit("deleteUser", Req(hdr, NoTok, body, 0), c,
                   IF c.ran THEN deleteUser(St, c.user, body)
                   ELSE Fail(St, c.error))

\* router.delete("/:id", authenticate, authorize(["ADMIN"]), deleteUserById)
DeleteUserById ==
    \E hdr \in Headers, id \in 1..MaxId :
        LET c == Chain(hdr, TRUE, <<"ADMIN">>)
        IN Commit("deleteUserById", Req(hdr, NoTok, NoBody, id), c,
                  IF c.ran THEN deleteUserById(St, id) ELSE Fail(St, c.error))

\* The client receives the response; it takes the tokens and the cookie
\* change the response carries, or keeps what it held
Receive ==
    /\ last # Idle
    /\ \E adopt \in BOOLEAN :
        /\ bearer' = IF adopt /\ last.access # NoTok THEN last.access ELSE bearer
        /\ jar' = IF adopt /\ last.cookie = "set" THEN last.refresh
                  ELSE IF adopt /\ last.cookie = "clear" THEN NoTok
                  ELSE jar
    /\ last' = Idle
    /\ UNCHANGED <<users, nextId, inflight, now, ticks, probe>>

----------------------------------------------------------------------------
(* The write left in flight reaches the table *)

StoreApply ==
    /\ last = Idle
    /\ inflight # NoOp
    /\ LET saved == StoreSave(users, inflight.user)
           done == IF inflight.kind = "save" THEN saved
                   ELSE [ok |-> TRUE, rows |-> StoreDelete(users, inflight.user.id)]
       IN /\ users' = done.rows
          /\ last' = [Idle EXCEPT !.op = inflight.kind, !.status = inflight.answered,
                                  !.user = Payload(inflight.user),
                                  !.ran = done.ok, !.pre = users]
    /\ inflight' = NoOp
    /\ UNCHANGED <<nextId, now, ticks, bearer, jar, probe>>

----------------------------------------------------------------------------
(* Time *)

\* the clock readings visited: the expiry of an access token issued at 0,
\* then whole refresh lifetimes
TimeAt(k) == IF k = 0 THEN 0 ELSE IF k = 1 THEN AccessLife ELSE (k - 1) * RefreshLife

Tick ==
    /\ last = Idle
    /\ inflight = NoOp
    /\ ticks < MaxTicks
    /\ ticks' = ticks + 1
    /\ now' = TimeAt(ticks + 1)
    /\ UNCHANGED <<users, nextId, inflight, bearer, jar, last, probe>>

----------------------------------------------------------------------------

Init ==
    /\ users = {}
    /\ nextId = 1
    /\ inflight = NoOp
    /\ now = 0
    /\ ticks = 0
    /\ bearer = NoTok
    /\ jar = NoTok
    /\ last = Idle
    /\ probe = <<>>

Next ==
    \/ Register
    \/ Login
    \/ Refresh
    \/ Logout
    \/ GetAllUser
    \/ GetProfile
    \/ GetUser
    \/ UpdateUser
    \/ UpdatePassword
    \/ DeleteUser
    \/ DeleteUserById
    \/ Receive
    \/ StoreApply

\* The routes at one clock reading
Spec == Init /\ [][Next]_vars

NextClock ==
    \/ Register
    \/ Login
    \/ Refresh
    \/ Logout
    \/ GetProfile
    \/ UpdateUser
    \/ DeleteUser
    \/ Receive
    \/ StoreApply
    \/ Tick

\* The routes that issue or take tokens, as the clock passes their expiry
SpecClock == Init /\ [][NextClock]_vars

\* The clock moves on by half an access lifetime or by a whole refresh
\* lifetime
Elapse ==
    /\ last = Idle
    /\ inflight = NoOp
    /\ ticks < MaxTicks
    /\ \E d \in {AccessLife \div 2, RefreshLife} : now' = now + d
    /\ ticks' = ticks + 1
    /\ UNCHANGED <<users, nextId, inflight, bearer, jar, last, probe>>

NextExpiry ==
    \/ Register
    \/ GetProfile
    \/ Refresh
    \/ Receive
    \/ Elapse

\* Tokens issued by registration, presented at /profile and /refresh before,
\* at and after their expiry
SpecExpiry == Init /\ [][NextExpiry]_vars

----------------------------------------------------------------------------
(* The password check on its own *)

\* characters a probe's free part is drawn from: a letter, a digit, a symbol
\* of the policy, a symbol outside it, a line feed
Alphabet == {"a", "1", "!", "@", "\n"}

RECURSIVE Fill(_)
Fill(n) == IF n = 0 THEN <<>> ELSE <<"a">> \o Fill(n - 1)

Tails == UNION {[1..n -> Alphabet] : n \in 0..MaxTail}

\* a run of letters with a free part before or after it, or no value at all
Probes ==
    {Fill(n) \o t : n \in 0..MaxFill, t \in Tails}
        \cup {t \o Fill(n) : n \in 0..MaxFill, t \in Tails}
        \cup {Undefined}

InitPw ==
    /\ users = {}
    /\ nextId = 1
    /\ inflight = NoOp
    /\ now = 0
    /\ ticks = 0
    /\ bearer = NoTok
    /\ jar = NoTok
    /\ last = Idle
    /\ probe \in Probes

\* passwordRegex.test(probe), as createUser and updatePassword call it
CheckPassword ==
    /\ last = Idle
    /\ last' = [Idle EXCEPT !.op = "passwordRegex",
                            !.body = [NoBody EXCEPT !.password = probe],
                            !.ran = passwordRegexTest(probe)]
    /\ UNCHANGED <<users, nextId, inflight, now, ticks, bearer, jar, probe>>

NextPw == CheckPassword

SpecPw == InitPw /\ [][NextPw]_vars

----------------------------------------------------------------------------
(* Properties *)

Protected ==
    {"getAllUser", "getProfile", "getUser", "updateUser", "updatePassword",
     "deleteUser", "deleteUserById"}

AdminOnly == {"getAllUser", "getUser", "deleteUserById"}

Mutating ==
    {"register", "updateUser", "updatePassword", "deleteUser", "deleteUserById"}

NoTokens == last.access = NoTok /\ last.refresh = NoTok /\ last.cookie = "none"

\* the request carried "Bearer <token>" with a token that verifies at the
\* time of the request
ValidBearer ==
    last.hdr.scheme = "Bearer" /\ verifyAccessToken(last.hdr.tok, now).ok

\* C1: a request on a protected route that presents a verifying access
\* token whose account is no longer in the store is answered 401 by
\* authenticate, no identity is attached and the handler does not run.
C1_DeletedAccountRejected ==
    (/\ last.op \in Protected
     /\ ValidBearer
     /\ findOneById(last.pre, last.hdr.tok.id) = Null)
        => last.status = 401 /\ last.user = NoUser /\ ~last.ran

\* C2: on an ADMIN-only route a request whose authenticated identity has
\* role ADMIN passes authorize and reaches the handler.
C2_AdminPassesAuthorize ==
    (last.op \in AdminOnly /\ last.user.role = "ADMIN") => last.ran

\* C3: on an ADMIN-only route a request whose authenticated identity has
\* role USER is answered 403 and the handler does not run: the store is as
\* it was and no deletion is left in flight.
C3_UserForbidden ==
    (last.op \in AdminOnly /\ last.user.role = "USER")
        => /\ last.status = 403
           /\ ~last.ran
           /\ users = last.pre
           /\ inflight = NoOp

C3_Witness ==
    /\ last.op = "deleteUserById"
    /\ last.user.role = "USER"
    /\ last.status = 403
    /\ findOneById(users, last.id) # Null
    /\ last.id # last.user.id

AllPresent(body) ==
    Truthy(body.name) /\ Truthy(body.email) /\ TruthyText(body.password)

InUse(rows, body) ==
    \E u \in rows : u.name = body.name \/ u.email = body.email

\* C4: a registration with name, email and password present is answered
\* 409 and creates no user when its name or its email is already in use
\* (whatever its password); with neither in use and a password that meets
\* the policy it is answered 201 and the store gains exactly the one user
\* with that name and email, which every later registration then meets.
C4_RegisterOnce ==
    (last.op = "register" /\ AllPresent(last.body))
        => IF InUse(last.pre, last.body)
           THEN last.status = 409 /\ users = last.pre /\ NoTokens
           ELSE passwordRegexTest(last.body.password)
                => /\ last.status = 201
                   /\ \E u \in users :
                       /\ u.name = last.body.name
                       /\ u.email = last.body.email
                       /\ u.role = "USER"
                       /\ users = last.pre \cup {u}
                       /\ u \notin last.pre
                       /\ last.access = generateAccessToken(Payload(u), now)

\* a registration that reuses the name of an existing user with a new email
C4_Witness ==
    /\ last.op = "register"
    /\ AllPresent(last.body)
    /\ last.status = 409
    /\ \E u \in last.pre : u.name = last.body.name
    /\ \A u \in last.pre : u.email # last.body.email

\* C5: no two distinct users of the store have the same name, and no two
\* have the same email.
C5_UniqueNameEmail ==
    \A u, v \in users :
        u # v => u.id # v.id /\ u.name # v.name /\ u.email # v.email

\* a profile update that would have duplicated a name or an email reached
\* the store and was turned down
C5_Witness ==
    /\ last.op = "save"
    /\ ~last.ran
    /\ Cardinality(users) = 2

\* C6: a mutating operation that answers an error leaves the store as it
\* was with no write under way, and a write whose request was answered with
\* success is applied to the store.
C6_NoPartialFailure ==
    /\ (last.op \in Mutating /\ last.status >= 400)
           => users = last.pre /\ inflight = NoOp
    /\ (last.op \in {"save", "delete"} /\ last.status \in {200, 201})
           => last.ran

StoreUntouched == users = last.pre /\ inflight = NoOp

RegisterRefusal(rows, body) ==
    IF AllPresent(body) /\ InUse(rows, body) THEN 409 ELSE 400

\* status of a password change whose new password violates the policy
PasswordRefusal(rows, id, body) ==
    LET row == findOneById(rows, id)
    IN IF row = Null THEN 404
       ELSE IF body.password = Undefined THEN 500
       ELSE IF ~bcryptCompare(body.password, row.password) THEN 401
       ELSE 400

Has(s, class) == \E k \in 1..Len(s) : s[k] \in class

\* the rule as the policy states it
Policy(s) ==
    /\ Len(s) >= MinLength
    /\ Has(s, Letters)
    /\ Has(s, Digits)
    /\ Has(s, PolicySymbols)

Checked == last.op = "passwordRegex" /\ probe # Undefined

Designated(rows, body) ==
    IF Truthy(body.email) THEN findOneByEmail(rows, body.email)
    ELSE findOneByName(rows, body.name)

\* C9: a login that sends a password and a name or an email is answered
\* 404 with no token when the identifier matches no user, 401 with no token
\* when the password is not that user's, and otherwise 200 with an access
\* token and a refresh-token cookie made for that user.
C9_Login ==
    (/\ last.op = "login"
     /\ TruthyText(last.body.password)
     /\ Truthy(last.body.name) \/ Truthy(last.body.email))
        => LET u == Designated(last.pre, last.body)
           IN /\ users = last.pre
              /\ IF u = Null
                 THEN last.status = 404 /\ NoTokens
                 ELSE IF ~bcryptCompare(last.body.password, u.password)
                 THEN last.status = 401 /\ NoTokens
                 ELSE /\ last.status = 200
                      /\ last.access = generateAccessToken(Payload(u), now)
                      /\ last.refresh = generateRefreshToken(Payload(u), now)
                      /\ last.cookie = "set"

\* a login by name alone, with the password the user changed to
C9_Witness ==
    /\ last.op = "login"
    /\ last.body.email = ""
    /\ last.body.password = Hotdog
    /\ last.status = 200
    /\ last.access.name = last.body.name
    /\ last.cookie = "set"

MintedBearer == last.hdr.scheme = "Bearer" /\ last.hdr.tok.sig = SECRET

\* C11: an access token issued at time T expires at T + AccessLife; sent to
\* a protected route it passes verifyAccessToken at every time before that
\* (the request carries its identity on) and is answered 401 at every time
\* at or after it.
C11_AccessTokenLifetime ==
    /\ last.access # NoTok => last.access.exp = now + AccessLife
    /\ (last.op \in Protected /\ MintedBearer)
           => /\ verifyAccessToken(last.hdr.tok, now).ok <=> now < last.hdr.tok.exp
              /\ IF now < last.hdr.tok.exp
                 THEN /\ last.user = Payload(last.hdr.tok)
                      /\ last.op \notin AdminOnly => last.ran
                 ELSE last.status = 401 /\ last.user = NoUser /\ ~last.ran

\* a token accepted half a lifetime after it was issued
C11_Witness ==
    /\ last.op = "getProfile"
    /\ MintedBearer
    /\ now = last.hdr.tok.exp - (AccessLife \div 2)
    /\ last.ran
    /\ last.status = 200

\* C12: no token minted by generateAccessToken passes verifyRefreshToken and
\* none minted by generateRefreshToken passes verifyAccessToken (each fails
\* with 401); an access token in the refresh cookie is answered 401 with no
\* new access token, and a refresh token sent as bearer token is answered
\* 401 by authenticate with no identity and no handler run.
C12_SecretsApart ==
    /\ \A tok \in {bearer, last.access} \ {NoTok} :
           /\ tok.sig = SECRET
           /\ verifyRefreshToken(tok, now) =
                  [ok |-> FALSE, err |-> AppError(401), decoded |-> NoUser]
    /\ \A tok \in {jar, last.refresh} \ {NoTok} :
           /\ tok.sig = REFRESH_SECRET
           /\ verifyAccessToken(tok, now) =
                  [ok |-> FALSE, err |-> AppError(401), decoded |-> NoUser]
    /\ (last.op = "refresh" /\ last.cookieIn.sig = SECRET)
           => last.status = 401 /\ last.access = NoTok
    /\ (/\ last.op \in Protected
        /\ last.hdr.scheme = "Bearer"
        /\ last.hdr.tok.sig = REFRESH_SECRET)
           => last.status = 401 /\ last.user = NoUser /\ ~last.ran

\* an access token that has not expired was sent as the refresh cookie
C12_Witness ==
    /\ last.op = "refresh"
    /\ last.cookieIn.sig = SECRET
    /\ now < last.cookieIn.exp
    /\ last.status = 401

NoHash(data) == \A r \in data : r.password = Null.password

Updating ==
    /\ last.op = "updateUser"
    /\ last.ran
    /\ findOneById(last.pre, last.user.id) # Null

\* C14: a profile update that carries a role equal to USER or ADMIN up to
\* letter case writes the role in upper case; one that carries any other
\* role is answered an error, starts no write and leaves the row as it was.
C14_InvalidRoleRejected ==
    (Updating /\ Truthy(last.body.role))
        => IF isRole(toUpperCase(last.body.role))
           THEN /\ last.status = 200
                /\ inflight.kind = "save"
                /\ inflight.user.role = toUpperCase(last.body.role)
           ELSE /\ last.status >= 400
                /\ StoreUntouched

----------------------------------------------------------------------------
(* isRole and toRole on their own *)

RoleProbes ==
    {Str(t) : t \in AdminSpellings \cup UserSpellings \cup {"", "root", "null"}}
        \cup {JsNull, JsUndefined}

InitRole ==
    /\ users = {}
    /\ nextId = 1
    /\ inflight = NoOp
    /\ now = 0
    /\ ticks = 0
    /\ bearer = NoTok
    /\ jar = NoTok
    /\ last = Idle
    /\ probe \in RoleProbes

CallIsRole ==
    /\ last = Idle
    /\ last' = [op |-> "isRole", result |-> isRoleValue(probe)]
    /\ UNCHANGED <<users, nextId, inflight, now, ticks, bearer, jar, probe>>

CallToRole ==
    /\ last = Idle
    /\ last' = [op |-> "toRole", result |-> toRole(probe)]
    /\ UNCHANGED <<users, nextId, inflight, now, ticks, bearer, jar, probe>>

NextRole == CallIsRole \/ CallToRole

SpecRole == InitRole /\ [][NextRole]_vars

\* the string 'ADMIN' or the string 'USER'
ExactRole == probe.type = "string" /\ probe.text \in {"ADMIN", "USER"}

\* C15: isRole(v) is true exactly when v is the string 'ADMIN' or 'USER';
\* toRole(v) returns v for those two strings and for every other value
\* throws an Error whose message is 'Unknown role : ' followed by v.
C15_IsRoleToRole ==
    /\ last.op = "isRole" => (last.result <=> ExactRole)
    /\ last.op = "toRole"
           => last.result =
                  IF ExactRole
                  THEN [returned |-> probe.text, thrown |-> <<>>]
                  ELSE [returned |-> "", thrown |-> <<"Unknown role : ", probe.text>>]

\* toRole was given the lower-case spelling of a role and threw
C15_Witness ==
    /\ last.op = "toRole"
    /\ probe = Str("admin")
    /\ last.result.thrown = <<"Unknown role : ", "admin">>

\* the row as a profile update with this body rewrites it
Updated(row, body) ==
    [id |-> row.id,
     password |-> row.password,
     email |-> IF body.email = "" THEN row.email ELSE body.email,
     name |-> IF body.name = "" THEN row.name ELSE body.name,
     role |-> IF body.role \in AdminSpellings THEN "ADMIN"
              ELSE IF body.role \in UserSpellings THEN "USER"
              ELSE row.role]

\* C16: the row a profile update writes keeps the stored id and password
\* hash, takes the name, email and role the body carries and keeps the
\* stored value of each of the three the body leaves out; when the write
\* reaches the table that row replaces the user's row and no other row
\* changes.
C16_PartialUpdate ==
    /\ [](Updating
            => /\ inflight.kind = "save"
               /\ inflight.user =
                      Updated(findOneById(last.pre, last.user.id), last.body))
    /\ [][(inflight.kind = "save" /\ inflight' = NoOp /\ last'.ran)
            => users' = {u \in users : u.id # inflight.user.id}
                            \cup {inflight.user}]_vars

\* an update of the email alone has reached the table
C16_Witness ==
    /\ last.op = "save"
    /\ last.ran
    /\ \E old \in last.pre : \E new \in users :
        /\ new.id = old.id
        /\ new.email # old.email
        /\ new.name = old.name
        /\ new.role = old.role
        /\ new.password = old.password
        /\ users \ {new} = last.pre \ {old}

\* C17: a profile update answered 200 carries an access token and sets a
\* refresh-token cookie, both with the id, name and role of the row the
\* handler wrote, and once that write has settled the user's stored id,
\* name and role are those claims.
C17_TokensMatchStore ==
    /\ (Updating /\ last.status = 200)
           => /\ last.cookie = "set"
              /\ last.access = generateAccessToken(Payload(inflight.user), now)
              /\ last.refresh = generateRefreshToken(Payload(inflight.user), now)
    /\ (last.op = "save" /\ last.status = 200)
           => Payload(findOneById(users, last.user.id)) = last.user

\* a password change that reached its handler with the caller's row in the
\* store and a current password in the body
ChangingPassword ==
    /\ last.op = "updatePassword"
    /\ last.ran
    /\ findOneById(last.pre, last.user.id) # Null
    /\ last.body.password # Undefined

Stored == findOneById(last.pre, last.user.id)

----------------------------------------------------------------------------
(* The two password-change handlers on a store of up to MaxId users *)

\* the accounts a store may hold: user i has the i-th name and email, and
\* one of two passwords
Account(i, n, pw) ==
    [id |-> i, name |-> n, email |-> n \o "@x.com",
     password |-> bcryptHash(pw), role |-> "USER"]

NameOf(i) == IF i = 1 THEN "alice" ELSE IF i = 2 THEN "bob" ELSE "carol"

Stores ==
    {rows \in SUBSET {Account(i, NameOf(i), pw) :
                          i \in 1..MaxId, pw \in {Passw0rd, Hotdog}} :
        \A u, v \in rows : u.id = v.id => u = v}

InitModules ==
    /\ users \in Stores
    /\ nextId = MaxId + 1
    /\ inflight = NoOp
    /\ now = 0
    /\ ticks = 0
    /\ bearer = NoTok
    /\ jar = NoTok
    /\ last = Idle
    /\ probe = <<>>

PasswordInputs == {Passw0rd, Hotdog, Short1, Undefined}

Caller(id) == [id |-> id, name |-> NameOf(id), role |-> "USER"]

Passed(id) == [error |-> NoError, user |-> Caller(id), ran |-> TRUE]

\* a password change by the authenticated user id, through the controller
\* and the class
ChangePassword ==
    \E id \in 1..MaxId, old, new \in PasswordInputs :
        LET body == [NoBody EXCEPT !.password = old, !.newPassword = new]
        IN Commit("UserController.updatePassword",
                  Req(NoHeader, NoTok, body, 0), Passed(id),
                  UserController_updatePassword(St, Caller(id), body))

\* the same request to the handler PUT /users/passwordChange is routed to
ChangePasswordServed ==
    \E id \in 1..MaxId, old, new \in PasswordInputs :
        LET body == [NoBody EXCEPT !.password = old, !.newPassword = new]
        IN Commit("updatePassword", Req(NoHeader, NoTok, body, 0), Passed(id),
                  updatePassword(St, Caller(id), body))

NextModules == ChangePassword \/ ChangePasswordServed

SpecModules == InitModules /\ [][NextModules]_vars

SamePassword ==
    /\ last.op \in {"updatePassword", "UserController.updatePassword"}
    /\ last.body.password = last.body.newPassword

DeletingSelf ==
    /\ last.op = "deleteUser"
    /\ last.ran
    /\ Stored # Null
    /\ last.body.password # Undefined

\* C20: a self-deletion with a password that is not the stored one is
\* answered 401, starts no delete and leaves the cookie alone; with the
\* stored password it is answered 200, clears the refreshToken cookie and
\* starts the delete of the caller's row, which, reaching the table,
\* removes that row and no other.
C20_DeleteSelf ==
    /\ DeletingSelf
           => IF bcryptCompare(last.body.password, Stored.password)
              THEN /\ last.status = 200
                   /\ last.cookie = "clear"
                   /\ inflight = Write("delete", Stored, 200)
              ELSE /\ last.status = 401
                   /\ last.cookie = "none"
                   /\ StoreUntouched
                   /\ Stored \in users
    /\ last.op = "delete"
           => /\ last.ran
              /\ users = {u \in last.pre : u.id # last.user.id}

\* the delete of one of two users has reached the table
C20_Witness ==
    /\ last.op = "delete"
    /\ last.status = 200
    /\ Cardinality(last.pre) = 2
    /\ Cardinality(users) = 1
    /\ \A u \in users : u.id # last.user.id

----------------------------------------------------------------------------
(* Deletion by id: the handler DELETE /users/:id is routed to, and the      *)
(* controller method of src/modules/user in front of the class, on a store  *)
(* of up to MaxId users                                                     *)

\* UserService.deleteUserById(id): getUserById throws 404 for a missing row;
\* the delete is started without await
UserService_deleteUserById(rows, id) ==
    LET row == findOneById(rows, id)
    IN IF row = Null THEN Thrown(AppError(404), rows)
       ELSE [err |-> NoError, user |-> row, rows |-> rows]

\* UserController.deleteUserById(req, res, next): the service call is not
\* awaited, so what it throws rejects a promise nobody holds and the catch
\* never sees it; the 200 is sent in the same turn
UserController_deleteUserById(st, id) ==
    LET r == UserService_deleteUserById(st.users, id)
    IN [Reply(st, 200, NoTok, NoTok, "none") EXCEPT
            !.inflight = IF r.err = NoError THEN Write("delete", r.user, 200)
                         ELSE st.inflight]

\* the identity authenticate attached: an administrator
Admin(id) == [id |-> id, name |-> NameOf(id), role |-> "ADMIN"]

PassedAdmin(id) == [error |-> NoError, user |-> Admin(id), ran |-> TRUE]

\* ids of the store and one past them
ParamIds == 1..(MaxId + 1)

DeleteByIdServed ==
    \E a \in 1..MaxId, id \in ParamIds :
        Commit("deleteUserById", Req(NoHeader, NoTok, NoBody, id),
               PassedAdmin(a), deleteUserById(St, id))

DeleteByIdController ==
    \E a \in 1..MaxId, id \in ParamIds :
        Commit("UserController.deleteUserById",
               Req(NoHeader, NoTok, NoBody, id), PassedAdmin(a),
               UserController_deleteUserById(St, id))

NextAdmin ==
    \/ DeleteByIdServed
    \/ DeleteByIdController
    \/ Receive
    \/ StoreApply

SpecAdmin == InitModules /\ [][NextAdmin]_vars

DeletingById ==
    last.op \in {"deleteUserById", "UserController.deleteUserById"} /\ last.ran

\* C21: a deletion by id that reached its handler carries no password; for
\* an id that matches no user it is answered 404 and starts no delete; for
\* the id of a user it is answered 200 and starts the delete of that user's
\* row, which, reaching the table, removes that row and no other.
C21_AdminDeleteById ==
    /\ DeletingById
           => /\ last.body.password = Undefined
              /\ IF findOneById(last.pre, last.id) = Null
                 THEN last.status = 404 /\ StoreUntouched
                 ELSE /\ last.status = 200
                      /\ users = last.pre
                      /\ inflight =
                             Write("delete", findOneById(last.pre, last.id), 200)
    /\ (last.op = "delete" /\ last.status = 200)
           => users = {u \in last.pre : u.id # last.user.id}

\* the same, of the handler the route is declared with
C21_ServedDeleteById ==
    last.op = "UserController.deleteUserById" \/ C21_AdminDeleteById

----------------------------------------------------------------------------

\* what a route protected by authenticate makes of "Bearer <tok>" now
Presented(tok) == authenticate([scheme |-> "Bearer", tok |-> tok], users, now)

\* C22: a logout is answered 200 and clears the refreshToken cookie, at the
\* path the cookie was set with, whatever header and cookie the request
\* carries; it issues nothing, leaves the store as it was and starts no
\* write; and once it is answered, every access token and every refresh
\* token the client holds or sent is accepted exactly as its signature and
\* its expiry decide: an access token before its expiry attaches its
\* identity, a refresh token before its expiry obtains a new access token.
C22_LogoutRevokesNothing ==
    last.op = "logout"
        => /\ last.status = 200
           /\ last.cookie = "clear"
           /\ logoutUser_path = prepareTokens_path
           /\ last.access = NoTok /\ last.refresh = NoTok
           /\ StoreUntouched
           /\ \A tok \in {bearer, jar, last.hdr.tok, last.cookieIn} \ {NoTok} :
               /\ (tok.sig = SECRET /\ now < tok.exp)
                      => /\ verifyAccessToken(tok, now).ok
                         /\ Presented(tok) =
                                [next |-> NoError, user |-> Payload(tok)]
               /\ (tok.sig = REFRESH_SECRET /\ now < tok.exp)
                      => /\ verifyRefreshToken(tok, now).ok
                         /\ refreshToken(St, tok).status = 200
                         /\ refreshToken(St, tok).access =
                                generateAccessToken(Payload(tok), now)
               /\ now >= tok.exp
                      => /\ ~verifyAccessToken(tok, now).ok
                         /\ ~verifyRefreshToken(tok, now).ok

\* a logout that carried the client's access token and its refresh cookie,
\* an access lifetime after they were issued: the refresh token is still
\* good
C22_Witness ==
    /\ last.op = "logout"
    /\ last.status = 200
    /\ last.hdr = [scheme |-> "Bearer", tok |-> bearer]
    /\ last.cookieIn = jar
    /\ jar.sig = REFRESH_SECRET
    /\ bearer.sig = SECRET
    /\ now >= bearer.exp
    /\ now < jar.exp
    /\ refreshToken(St, jar).status = 200

BadCredentials ==
    \/ last.hdr.scheme # "Bearer"
    \/ last.hdr.tok.sig # SECRET
    \/ now >= last.hdr.tok.exp

\* C24: on every route behind authenticate, a request with such a header is
\* answered 401 by authenticate's one call next(error); no identity is
\* attached, the rest of the chain and the handler do not run, the store is
\* as it was and no token is issued.
C24_AuthenticateRejects ==
    (last.op \in Protected /\ BadCredentials)
        => /\ authenticate(last.hdr, last.pre, now) =
                  [next |-> AppError(401), user |-> NoUser]
           /\ last.status = 401
           /\ last.user = NoUser
           /\ ~last.ran
           /\ users = last.pre
           /\ last.op \notin Overlapping => inflight = NoOp
           /\ NoTokens

\* an access token that would verify, sent under another scheme
C24_Witness ==
    /\ last.op = "updateUser"
    /\ last.hdr.scheme = "Basic"
    /\ verifyAccessToken(last.hdr.tok, now).ok
    /\ findOneById(users, last.hdr.tok.id) # Null
    /\ last.status = 401

----------------------------------------------------------------------------
(* authorize on its own: the middleware a route declares, run on a request  *)
(* whose req.user is as drawn                                               *)

\* the lists the router declares, and the same in other letter cases
AllowedRoleLists == {<<"Admin">>, <<"ADMIN">>, <<"admin">>, <<"admin", "user">>}

\* req.user: nothing, or an identity with a role in some letter case
Identities ==
    {NoUser} \cup {[id |-> i, name |-> NameOf(i), role |-> r] :
                      i \in 1..MaxId, r \in AdminSpellings \cup UserSpellings}

InitAuthorize ==
    /\ users = {}
    /\ nextId = 1
    /\ inflight = NoOp
    /\ now = 0
    /\ ticks = 0
    /\ bearer = NoTok
    /\ jar = NoTok
    /\ last = Idle
    /\ probe \in Identities

\* authorize(allowedRoles)(req, res, next) with req.user = probe: the
\* next(...) calls it makes, whether the protected handler is reached, and
\* the status the error handler answers otherwise
CallAuthorize ==
    /\ last = Idle
    /\ \E allowedRoles \in AllowedRoleLists :
        LET calls == authorize(allowedRoles, probe)
        IN last' = [op |-> "authorize", allowedRoles |-> allowedRoles,
                    calls |-> calls,
                    ran |-> Dispatch(calls) = NoError,
                    status |-> IF Dispatch(calls) = NoError THEN 0
                               ELSE errorHandler(Dispatch(calls))]
    /\ UNCHANGED <<users, nextId, inflight, now, ticks, bearer, jar, probe>>

NextAuthorize == CallAuthorize

SpecAuthorize == InitAuthorize /\ [][NextAuthorize]_vars

\* C25: authorize run on a request with no identity attached reports the
\* 401 error and nothing else: next is called once, with that error, no
\* other error is raised and the protected handler is not reached.
C25_NoIdentityOnly401 ==
    (last.op = "authorize" /\ probe = NoUser)
        => /\ last.calls = <<AppError(401)>>
           /\ last.status = 401
           /\ ~last.ran

----------------------------------------------------------------------------
(* The error handler on its own: app.use(errorHandler), the last layer of   *)
(* the application                                                          *)

\* new AppError(message, statusCode)
AppErrorOf(message, statusCode) ==
    [app |-> TRUE, statusCode |-> statusCode, status |-> ToString(statusCode),
     message |-> message]

\* an Error that is not an AppError
ErrorOf(message) == [app |-> FALSE, message |-> message]

GenericMessage == "Internal server error"

errorHandler_jsonLeaky(err, NODE_ENV) ==
    IF err.app
    THEN [code |-> err.statusCode,
          json |-> [status |-> err.status, message |-> err.message]]
    ELSE [code |-> 500, json |-> [status |-> "error", message |-> err.message]]

\* errorHandler(err, req, res, next): res.status(code).json(json)
errorHandler_json(err, NODE_ENV) ==
    IF err.app
    THEN [code |-> err.statusCode,
          json |-> [status |-> err.status, message |-> err.message]]
    ELSE [code |-> 500,
          json |-> [status |-> "error",
                    message |-> IF NODE_ENV = "development" THEN err.message
                                ELSE GenericMessage]]

\* messages and status codes the handlers, the middlewares and the token
\* service construct AppErrors with
AppMessages ==
    {"User not found.", "Incorrect password.", "Invalid password format.",
     "Missing refresh token.", "You need to be logged in.",
     "Invalid or expired token.", "Missing JWT secret in .env."}

StatusCodes == {400, 401, 403, 404, 405, 409, 500}

\* what else reaches the handler: the TypeError of authorize, bcrypt's
\* complaint about a missing argument, a unique-constraint failure of save,
\* a body the JSON parser rejects
OtherMessages ==
    {"Cannot read properties of undefined (reading 'role')",
     "data and hash arguments required",
     "duplicate key value violates unique constraint",
     "Unexpected token } in JSON at position 1"}

Raised ==
    {AppErrorOf(m, c) : m \in AppMessages, c \in StatusCodes}
        \cup {ErrorOf(m) : m \in OtherMessages}

\* process.env.NODE_ENV; "" when it is not set
NodeEnvs == {"development", "production", "test", "Development", ""}

InitErrors ==
    /\ users = {}
    /\ nextId = 1
    /\ inflight = NoOp
    /\ now = 0
    /\ ticks = 0
    /\ bearer = NoTok
    /\ jar = NoTok
    /\ last = Idle
    /\ probe \in [err : Raised, NODE_ENV : NodeEnvs]

HandleError ==
    /\ last = Idle
    /\ last' = [op |-> "errorHandler",
                response |-> errorHandler_json(probe.err, probe.NODE_ENV)]
    /\ UNCHANGED <<users, nextId, inflight, now, ticks, bearer, jar, probe>>

NextErrors == HandleError

SpecErrors == InitErrors /\ [][NextErrors]_vars

\* C26: the error handler answers an AppError with that error's status code
\* and the body {status, message}, status being the code as text and
\* message the error's; it answers any other error with 500 and the body
\* {status: "error", message}, message being 'Internal server error'
\* unless NODE_ENV is exactly 'development', when it is the error's own.
C26_ErrorsToResponses ==
    last.op = "errorHandler"
        => LET err == probe.err
               r == last.response
           IN /\ DOMAIN r.json = {"status", "message"}
              /\ IF err.app
                 THEN /\ r.code = err.statusCode
                      /\ r.code = errorHandler(AppError(err.statusCode))
                      /\ r.json.status = ToString(err.statusCode)
                      /\ r.json.message = err.message
                 ELSE /\ r.code = 500
                      /\ r.code = errorHandler(PlainError)
                      /\ r.json.status = "error"
                      /\ r.json.message =
                             IF probe.NODE_ENV = "development" THEN err.message
                             ELSE "Internal server error"

\* in production the handler hides what the store said about a duplicate
C26_Witness ==
    /\ last.op = "errorHandler"
    /\ probe.NODE_ENV = "production"
    /\ probe.err = ErrorOf("duplicate key value violates unique constraint")
    /\ last.response.code = 500
    /\ last.response.json.message = GenericMessage

----------------------------------------------------------------------------

\* an output of the hash primitive: its marker, then what was hashed
Hashed(h) == h # <<>> /\ h[1] = "$2b$" /\ h = bcryptHash(Tail(h))

\* C27: every stored password is an output of the hash primitive, of a
\* password that met the policy, and never the text a request carried; the
\* row a registration creates holds the hash of the password it sent, the
\* row a password change writes holds the hash of the new password it sent,
\* and a step changes a stored password only by creating such a row or by
\* such a write reaching the table.
C27_PasswordsHashed ==
    /\ [](/\ \A u \in users :
               /\ Hashed(u.password)
               /\ passwordRegexTest(Tail(u.password))
               /\ u.password \notin {Passw0rd, Hotdog, Short1}
          /\ (last.op = "register" /\ last.status = 201)
                 => \E u \in users \ last.pre :
                        /\ u.password = <<"$2b$">> \o last.body.password
                        /\ users = last.pre \cup {u}
          /\ (last.op = "updatePassword" /\ last.status = 200)
                 => /\ inflight.kind = "save"
                    /\ inflight.user =
                           [Stored EXCEPT
                               !.password = <<"$2b$">> \o last.body.newPassword])
    /\ [][\A u \in users' :
              \/ \E v \in users : v.id = u.id /\ v.password = u.password
              \/ last'.op = "register" /\ last'.status = 201
              \/ last'.op = "save" /\ u = inflight.user]_vars

\* a password change has reached the table: the row holds the hash of the
\* new password in place of the hash of the one sent at registration
C27_Witness ==
    /\ last.op = "save"
    /\ last.ran
    /\ \E old \in last.pre : \E new \in users :
        /\ new.id = old.id
        /\ old.password = bcryptHash(Passw0rd)
        /\ new.password = bcryptHash(Hotdog)

----------------------------------------------------------------------------
(* Registration with a body that also carries a role *)

RegisterBodiesWithRole ==
    {[body EXCEPT !.role = r] :
        body \in RegisterBodies, r \in RoleInputs \cup {"", "ADMIN"}}

\* router.post("/register", registerLimiter, createUser)
RegisterAs ==
    \E body \in RegisterBodiesWithRole :
        Commit("register", Req(NoHeader, NoTok, body, 0), Open,
               createUser(St, body))

NextRegister == RegisterAs \/ Receive

SpecRegister == Init /\ [][NextRegister]_vars

\* C28: a registration answered 201 creates one user, with role USER, and
\* its access token and refresh token carry role USER, whatever role the
\* body names; with or without a role field the response and the store are
\* those of the same request without it.
C28_RegisteredAsUser ==
    last.op = "register"
        => /\ last.status = 201
               => /\ \E u \in users \ last.pre :
                       /\ users = last.pre \cup {u}
                       /\ u.role = "USER"
                       /\ u.name = last.body.name
                  /\ last.access.role = "USER"
                  /\ last.refresh.role = "USER"
                  /\ \A r \in last.data : r.role = "USER"
           /\ \A u \in users : u.role = "USER"
           /\ LET plain == createUser([St EXCEPT !.users = last.pre,
                                                !.nextId = nextId - 1],
                                      [last.body EXCEPT !.role = ""])
              IN last.status = 201
                     => /\ plain.status = 201
                        /\ plain.users = users
                        /\ plain.access = last.access
                        /\ plain.refresh = last.refresh

\* a registration that asked for the role ADMIN
C28_Witness ==
    /\ last.op = "register"
    /\ last.body.role = "ADMIN"
    /\ last.status = 201
    /\ last.access.role = "USER"
    /\ \E u \in users : u.name = last.body.name /\ u.role = "USER"

----------------------------------------------------------------------------
(* Two registrations served at once.  createUser gives up the thread at     *)
(* each await: the lookup by email, the lookup by name, the save; the other *)
(* request's steps may run in between.  probe holds the two requests:       *)
(* body, the step to run next, and the status answered (0: not yet).        *)

RaceBodies ==
    {[NoBody EXCEPT !.name = n, !.email = e, !.password = p] :
        n \in Names, e \in Emails, p \in {Passw0rd, Short1}}
        \cup {[NoBody EXCEPT !.name = "alice", !.password = Passw0rd]}

Calls == 1..2

InitRace ==
    /\ users = {}
    /\ nextId = 1
    /\ inflight = NoOp
    /\ now = 0
    /\ ticks = 0
    /\ bearer = NoTok
    /\ jar = NoTok
    /\ last = Idle
    /\ probe \in [Calls -> [body : RaceBodies, pc : {"createUser"}, status : {0}]]

\* the request's step: it moves to pc, or is answered
Step(r, pc, status) ==
    /\ probe' = [probe EXCEPT ![r].pc = pc, ![r].status = status]
    /\ UNCHANGED <<inflight, now, ticks, bearer, jar, last>>

Answer(r, err) == Step(r, "done", errorHandler(err))

\* the handler starts: the fields of the body, then the query by email is
\* sent
createUser_begin(r) ==
    /\ probe[r].pc = "createUser"
    /\ IF ~AllPresent(probe[r].body)
       THEN Answer(r, AppError(400))
       ELSE Step(r, "findOneByEmail", 0)
    /\ UNCHANGED <<users, nextId>>

\* await userRepository.findOne({ where: { email } })
createUser_findOneByEmail(r) ==
    /\ probe[r].pc = "findOneByEmail"
    /\ IF findOneByEmail(users, probe[r].body.email) # Null
       THEN Answer(r, AppError(409))
       ELSE Step(r, "findOneByName", 0)
    /\ UNCHANGED <<users, nextId>>

\* await userRepository.findOne({ where: { name } }), then the policy and
\* the hash
createUser_findOneByName(r) ==
    /\ probe[r].pc = "findOneByName"
    /\ IF findOneByName(users, probe[r].body.name) # Null
       THEN Answer(r, AppError(409))
       ELSE IF ~passwordRegexTest(probe[r].body.password)
       THEN Answer(r, AppError(400))
       ELSE Step(r, "save", 0)
    /\ UNCHANGED <<users, nextId>>

\* await userRepository.save(user), then prepareTokens(res, 201, user); a
\* row the table refuses rejects the await, and the catch passes that error
\* on
createUser_save(r) ==
    /\ probe[r].pc = "save"
    /\ LET body == probe[r].body
           user == [id |-> nextId, name |-> body.name, email |-> body.email,
                    password |-> bcryptHash(body.password), role |-> "USER"]
           saved == StoreSave(users, user)
       IN /\ users' = saved.rows
          /\ nextId' = nextId + 1
          /\ IF saved.ok THEN Step(r, "done", 201) ELSE Answer(r, PlainError)

NextRace ==
    \E r \in Calls :
        \/ createUser_begin(r)
        \/ createUser_findOneByEmail(r)
        \/ createUser_findOneByName(r)
        \/ createUser_save(r)

SpecRace == InitRace /\ [][NextRace]_vars

\* both requests are answered; each had a name, an email and a password
\* that meets the policy; they name the same user or the same email
RacedForOne ==
    /\ \A r \in Calls :
        /\ probe[r].pc = "done"
        /\ AllPresent(probe[r].body)
        /\ passwordRegexTest(probe[r].body.password)
    /\ \/ probe[1].body.name = probe[2].body.name
       \/ probe[1].body.email = probe[2].body.email

\* C29: of two registrations with the same name or the same email, served
\* at once and interleaved in any way at their lookups and saves, one is
\* answered 201, the other 409, and one user is created.
C29_OneWinsOther409 ==
    RacedForOne
        => /\ Cardinality(users) = 1
           /\ {probe[r].status : r \in Calls} = {201, 409}

\* what holds of them: one is answered 201 and one user is created; the
\* other is answered 409 when its lookup came after the first one's save,
\* and 500 when the table turned its row down
C29_OneWins ==
    RacedForOne
        => /\ Cardinality(users) = 1
           /\ \E r \in Calls :
               /\ probe[r].status = 201
               /\ probe[3 - r].status \in {409, 500}

----------------------------------------------------------------------------

\* the table once the write in flight has reached it
Settled ==
    IF inflight.kind = "save" THEN StoreSave(last.pre, inflight.user).rows
    ELSE IF inflight.kind = "delete" THEN StoreDelete(last.pre, inflight.user.id)
    ELSE last.pre

\* C30: a request that starts after a profile update, a password change or
\* a deletion was answered 200 is answered as the store stands with that
\* write done: a login as loginUser answers on the written table (404 once
\* the account is deleted, 401 for the password that was replaced), a
\* profile read as getProfile answers on it.
C30_LaterRequestsSeeWrite ==
    (last.op \in Overlapping /\ inflight # NoOp /\ inflight.answered = 200)
        => LET after == [St EXCEPT !.users = Settled, !.inflight = NoOp]
               seen == IF last.op = "login" THEN loginUser(after, last.body)
                       ELSE IF last.ran THEN getProfile(after, last.user)
                       ELSE Fail(after, AppError(last.status))
           IN /\ last.status = seen.status
              /\ last.data = seen.data

----------------------------------------------------------------------------

\* C31: authorize calls next exactly once for a request: with the 401 or
\* the 403 error, or with no argument.
C31_NextCalledOnce ==
    last.op = "authorize"
        => /\ Len(last.calls) = 1
           /\ last.calls[1] \in {AppError(401), AppError(403), NoError}

\* what holds of it: one call, with no argument, when the identity's role in
\* lower case is in the list as declared; the 403 followed by a call with
\* no argument when it is not; the 401 followed by an error thrown when
\* there is no identity
C31_NextCalls ==
    last.op = "authorize"
        => last.calls =
               IF probe = NoUser THEN <<AppError(401), PlainError>>
               ELSE IF \E i \in 1..Len(last.allowedRoles) :
                           last.allowedRoles[i] = toLowerCase(probe.role)
               THEN <<NoError>>
               ELSE <<AppError(403), NoError>>

----------------------------------------------------------------------------
(* What a handler does to the response: its calls of res.json and of next,  *)
(* in order, for the two handlers that list the users                      *)

Json(status, data) == [call |-> "res.json", status |-> status, data |-> data]

NextCall(err) == [call |-> "next", status |-> errorHandler(err), data |-> {}]

\* res.headersSent: a response has been written
headersSent(calls) == \E i \in 1..Len(calls) : calls[i].call = "res.json"

\* res.json(body): it writes the response, or throws when one was written
res_json(calls, status, data) ==
    IF headersSent(calls)
    THEN [calls |-> calls, thrown |-> TRUE]
    ELSE [calls |-> Append(calls, Json(status, data)), thrown |-> FALSE]

\* JavaScript `if (x)` for an array: true, for the empty array too
TruthyArray(rows) == TRUE

\* getAllUser of src/services/UserService.ts
getAllUser_calls(st) ==
    LET a == res_json(<<>>, 200, getAllUser(st).data)
    IN IF a.thrown THEN Append(a.calls, NextCall(PlainError)) ELSE a.calls

\* UserService.getAllUsers()
UserService_getAllUsers(rows) ==
    {Select(u, {"id", "name", "email", "role"}) : u \in rows}

\* UserController.getAllUser: the res.json inside `if (users)` is followed
\* by the res.json after it; what that one throws goes to next
UserController_getAllUser_calls(st) ==
    LET found == UserService_getAllUsers(st.users)
        a == IF TruthyArray(found) THEN res_json(<<>>, 200, found)
             ELSE [calls |-> <<>>, thrown |-> FALSE]
        b == IF a.thrown THEN a ELSE res_json(a.calls, 200, {})
    IN IF b.thrown THEN Append(b.calls, NextCall(PlainError)) ELSE b.calls

\* the request as answered: the first response written
Answered(op, calls) ==
    [op |-> op, calls |-> calls, status |-> calls[1].status,
     data |-> calls[1].data, access |-> NoTok, refresh |-> NoTok,
     cookie |-> "none", pre |-> users]

ListServed ==
    /\ last = Idle
    /\ last' = Answered("getAllUser", getAllUser_calls(St))
    /\ UNCHANGED <<users, nextId, inflight, now, ticks, bearer, jar, probe>>

ListController ==
    /\ last = Idle
    /\ last' = Answered("UserController.getAllUser",
                        UserController_getAllUser_calls(St))
    /\ UNCHANGED <<users, nextId, inflight, now, ticks, bearer, jar, probe>>

NextResponses ==
    \/ Register
    \/ ListServed
    \/ ListController
    \/ Receive

SpecResponses == Init /\ [][NextResponses]_vars

Listing == last.op \in {"getAllUser", "UserController.getAllUser"}

\* C32: a handler that lists the users writes one response and, having
\* written it, neither writes another nor calls next with an error.
C32_OneResponse ==
    Listing
        => /\ Len(last.calls) = 1
           /\ last.calls[1].call = "res.json"

\* the same, of the handler GET /users is routed to
C32_ServedOneResponse ==
    last.op = "getAllUser"
        => last.calls = <<Json(200, getAllUser(St).data)>>

----------------------------------------------------------------------------

\* a request has passed authorize on a route that admits administrators only
PassedAdminGate == last.op \in AdminOnly /\ last.ran

\* C33: as long as no request has passed an ADMIN gate, every stored role is
\* USER, no write under way carries the role ADMIN, and no token issued or
\* held carries it.
C33_NoSelfPromotion ==
    /\ ~PassedAdminGate
    /\ \A u \in users : u.role = "USER"
    /\ inflight.user.role # "ADMIN"
    /\ \A tok \in {last.access, last.refresh, bearer, jar} : tok.role # "ADMIN"

----------------------------------------------------------------------------

\* an access token whose user's stored name or role is no longer the one
\* the token was signed with
Stale(tok, rows) ==
    /\ tok.sig = SECRET
    /\ findOneById(rows, tok.id) # Null
    /\ Payload(findOneById(rows, tok.id)) # Payload(tok)

\* C34: an access token issued before a profile update changed its user's
\* name or role is accepted by authenticate at every time before its own
\* expiry and rejected from then on; the identity attached from it is the
\* token's, with the old name and role, not the stored row's, and it is the
\* one the request is served with.  New tokens come only in the response to
\* the update itself.
C34_StaleTokensAccepted ==
    /\ \A tok \in {bearer, last.hdr.tok} :
           Stale(tok, users)
               => IF now < tok.exp
                  THEN /\ Presented(tok) = [next |-> NoError, user |-> Payload(tok)]
                       /\ Presented(tok).user # Payload(findOneById(users, tok.id))
                  ELSE Presented(tok) = [next |-> AppError(401), user |-> NoUser]
    /\ (last.op \in Protected /\ last.hdr.scheme = "Bearer"
            /\ Stale(last.hdr.tok, last.pre))
           => IF now < last.hdr.tok.exp
              THEN /\ last.user = Payload(last.hdr.tok)
                   /\ last.op \notin AdminOnly => last.ran
              ELSE last.status = 401 /\ ~last.ran
    /\ (last.op \in {"save", "delete"}) => NoTokens

\* the profile was read with a token that still names the user as before
\* the update
C34_Witness ==
    /\ last.op = "getProfile"
    /\ last.status = 200
    /\ last.hdr.tok = bearer
    /\ Stale(bearer, last.pre)
    /\ inflight = NoOp
    /\ last.user.name # findOneById(users, last.user.id).name
    /\ \E r \in last.data : r.name # last.user.name

----------------------------------------------------------------------------

\* the stores that differ from rows in the user a token names: the user
\* deleted, renamed, given the other role, and no user at all
StoresAround(rows, id) ==
    LET others == {u \in rows : u.id # id}
        mine == rows \ others
    IN {rows, others, {}}
           \cup {others \cup {[u EXCEPT !.name = n]} : u \in mine, n \in Names}
           \cup {others \cup {[u EXCEPT !.role = r]} : u \in mine, r \in {"USER", "ADMIN"}}

\* what a response shows to the client
Shown(out) ==
    [status |-> out.status, access |-> out.access, refresh |-> out.refresh,
     cookie |-> out.cookie, data |-> out.data]

\* C35: the answer to a refresh is the same for every content of the store:
\* with the same cookie at the same time, the status and the access token
\* are those that would be given with the cookie's user deleted, renamed or
\* given another role, and an access token given carries the identity
\* signed into the cookie.
C35_RefreshIgnoresStore ==
    last.op = "refresh"
        => /\ \A rows \in StoresAround(last.pre, last.cookieIn.id) \cup {users} :
                  Shown(refreshToken([St EXCEPT !.users = rows], last.cookieIn))
                      = Shown(last)
           /\ last.status = 200 => Payload(last.access) = Payload(last.cookieIn)

\* a refresh answered with an access token for a user who has been deleted,
\* or whose stored name or role is no longer the cookie's
C35_Witness ==
    /\ last.op = "refresh"
    /\ last.status = 200
    /\ last.cookieIn # NoTok
    /\ \/ findOneById(users, last.cookieIn.id) = Null
       \/ Payload(findOneById(users, last.cookieIn.id)) # Payload(last.cookieIn)
    /\ Payload(last.access) = Payload(last.cookieIn)

----------------------------------------------------------------------------

ActsOnSelf == {"updateUser", "updatePassword", "deleteUser"}

\* the rows of every user but id are those the store held before
OthersKept(id) == {u \in users : u.id # id} = {u \in last.pre : u.id # id}

\* C36: a profile update, a password change or a self-deletion leaves the
\* row of every user other than the one named by the request's verified
\* token as it was, for every body: when the request is answered the store
\* is unchanged and the write it started, if any, is for the token's id;
\* when that write lands, the rows of all other ids are the same as before.
C36_OthersUnchanged ==
    /\ last.op \in ActsOnSelf
           => /\ users = last.pre
              /\ inflight # NoOp
                     => /\ last.ran
                        /\ last.user = Payload(last.hdr.tok)
                        /\ inflight.user.id = last.hdr.tok.id
    /\ last.op \in {"save", "delete"} => OthersKept(last.user.id)

\* a write started by one user has landed and changed the store, with the
\* other user's row in the store before and after
C36_Witness ==
    /\ last.op \in {"save", "delete"}
    /\ last.ran
    /\ users # last.pre
    /\ \E u \in users : u.id # last.user.id /\ u \in last.pre

----------------------------------------------------------------------------
(* Health module *)

HEALTHY == "healthy"
UNHEALTHY == "unhealthy"
DEGRADED == "degraded"
HealthStatus == {HEALTHY, UNHEALTHY, DEGRADED}

\* the number of dependency checks handed to checkGlobalStatus, and the
\* largest heap, in megabytes
MaxChecks == 3
MaxHeapMB == 5

\* heap sizes are counted in quarters of a megabyte
PerMB == 4

\* Math.round(bytes / 1024 / 1024) of a size that is not negative
Math_round(quarters) == (quarters + (PerMB \div 2)) \div PerMB

\* a quotient of two numbers that are not negative, kept as a fraction:
\* x / 0 is Infinity for x > 0 and NaN for x = 0
Quotient(num, den) == [num |-> num, den |-> den]

\* q > k in floating point: Infinity is above every k, NaN above none
Above(q, k) == IF q.den = 0 THEN q.num > 0 ELSE q.num > k * q.den

\* checkMemory() over process.memoryUsage() = {heapUsed, heapTotal}; of the
\* message, the part added to the sizes
checkMemory(heapUsed, heapTotal) ==
    LET heapUsedMB == Math_round(heapUsed)
        heapTotalMB == Math_round(heapTotal)
        percentUsed == Quotient(heapUsedMB, heapTotalMB * 100)
    IN [status |-> IF Above(percentUsed, 90) THEN UNHEALTHY
                   ELSE IF Above(percentUsed, 80) THEN DEGRADED
                   ELSE HEALTHY,
        responseTime |-> 0,
        message |-> IF Above(percentUsed, 90) THEN "Critical memory usage"
                    ELSE IF Above(percentUsed, 80) THEN "High memory usage"
                    ELSE ""]

\* checkDatabase(): the query threw, or the data source is not
\* initialized, or the answer took more than a second
checkDatabase(threw, isInitialized, responseTime) ==
    [status |-> IF threw THEN UNHEALTHY
                ELSE IF ~isInitialized THEN UNHEALTHY
                ELSE IF responseTime > 1000 THEN DEGRADED
                ELSE HEALTHY,
     responseTime |-> responseTime,
     message |-> IF threw THEN "Error unknown."
                 ELSE IF ~isInitialized THEN "Database is not initialized."
                 ELSE IF responseTime > 1000 THEN "Slow response time."
                 ELSE "Connection successful."]

\* statuses.some((status) => status === wanted)
some(statuses, wanted) == \E i \in 1..Len(statuses) : statuses[i] = wanted

checkGlobalStatusFirstWins(checks) ==
    IF \A i \in 1..Len(checks) : checks[i].status = HEALTHY
    THEN HEALTHY
    ELSE LET i == CHOOSE j \in 1..Len(checks) :
                      /\ checks[j].status # HEALTHY
                      /\ \A k \in 1..(j - 1) : checks[k].status = HEALTHY
         IN checks[i].status

\* checkGlobalStatus(checks) over Object.values(checks), in key order
checkGlobalStatus(checks) ==
    LET statuses == [i \in 1..Len(checks) |-> checks[i].status]
    IN IF some(statuses, UNHEALTHY) THEN UNHEALTHY
       ELSE IF some(statuses, DEGRADED) THEN DEGRADED
       ELSE HEALTHY

\* healthCheck: the database and memory checks, the overall status and the
\* status code of the response
healthCheck(dbCheck, memoryCheck) ==
    LET checks == <<dbCheck, memoryCheck>>
        overallStatus == checkGlobalStatus(checks)
    IN [status |-> overallStatus,
        checks |-> checks,
        statusCode |-> IF overallStatus = UNHEALTHY THEN 503 ELSE 200]

Check(status) == [status |-> status, responseTime |-> 0, message |-> ""]

\* the records of checks handed to checkGlobalStatus
CheckRecords ==
    UNION {[1..n -> {Check(s) : s \in HealthStatus}] : n \in 0..MaxChecks}

\* the heaps process.memoryUsage() reports: at least a megabyte in all, and
\* no more in use than there is
MemoryUsages ==
    {h \in [heapUsed : 0..(MaxHeapMB * PerMB),
            heapTotal : PerMB..(MaxHeapMB * PerMB)] : h.heapUsed <= h.heapTotal}

DatabaseStates ==
    {[threw |-> th, isInitialized |-> ini, responseTime |-> rt] :
        th \in BOOLEAN, ini \in BOOLEAN, rt \in {0, 1000, 1001}}

InitHealth ==
    /\ users = {}
    /\ nextId = 1
    /\ inflight = NoOp
    /\ now = 0
    /\ ticks = 0
    /\ bearer = NoTok
    /\ jar = NoTok
    /\ last = Idle
    /\ probe \in {[fn |-> "checkGlobalStatus", checks |-> c] : c \in CheckRecords}
            \cup {[fn |-> "checkMemory", memoryUsage |-> m] : m \in MemoryUsages}
            \cup {[fn |-> "healthCheck", database |-> d, memoryUsage |-> m] :
                     d \in DatabaseStates,
                     m \in {h \in MemoryUsages : h.heapTotal = MaxHeapMB * PerMB
                                                 /\ h.heapUsed % PerMB = 1}}

CallCheckGlobalStatus ==
    /\ last = Idle
    /\ probe.fn = "checkGlobalStatus"
    /\ last' = [op |-> "checkGlobalStatus",
                status |-> checkGlobalStatus(probe.checks)]
    /\ UNCHANGED <<users, nextId, inflight, now, ticks, bearer, jar, probe>>

CallCheckMemory ==
    /\ last = Idle
    /\ probe.fn = "checkMemory"
    /\ last' = [op |-> "checkMemory",
                status |-> checkMemory(probe.memoryUsage.heapUsed,
                                       probe.memoryUsage.heapTotal).status]
    /\ UNCHANGED <<users, nextId, inflight, now, ticks, bearer, jar, probe>>

\* router.get('/detailed', controller.healthCheck)
HealthCheck ==
    /\ last = Idle
    /\ probe.fn = "healthCheck"
    /\ LET dbCheck == checkDatabase(probe.database.threw,
                                    probe.database.isInitialized,
                                    probe.database.responseTime)
           memoryCheck == checkMemory(probe.memoryUsage.heapUsed,
                                      probe.memoryUsage.heapTotal)
           out == healthCheck(dbCheck, memoryCheck)
       IN last' = [op |-> "healthCheck", status |-> out.status,
                   statusCode |-> out.statusCode, checks |-> out.checks]
    /\ UNCHANGED <<users, nextId, inflight, now, ticks, bearer, jar, probe>>

NextHealth == CallCheckGlobalStatus \/ CallCheckMemory \/ HealthCheck

\* The health service's functions, each run on its own input
SpecHealth == InitHealth /\ [][NextHealth]_vars

\* the statuses among the checks
StatusesOf(checks) == {checks[i].status : i \in 1..Len(checks)}

\* unhealthy before degraded before healthy
Worst(statuses) ==
    IF UNHEALTHY \in statuses THEN UNHEALTHY
    ELSE IF DEGRADED \in statuses THEN DEGRADED
    ELSE HEALTHY

\* the same checks in every order
Reordered(checks) ==
    {[i \in 1..Len(checks) |-> checks[p[i]]] : p \in Permutations(1..Len(checks))}

\* C37: checkGlobalStatus answers UNHEALTHY when a check is UNHEALTHY,
\* otherwise DEGRADED when a check is DEGRADED, otherwise HEALTHY, also for
\* no checks at all, and answers the same for the checks in any other
\* order; the detailed health check reports that status for its database
\* and memory checks.
C37_GlobalStatusIsWorst ==
    /\ last.op = "checkGlobalStatus"
           => /\ last.status = Worst(StatusesOf(probe.checks))
              /\ Len(probe.checks) = 0 => last.status = HEALTHY
              /\ \A q \in Reordered(probe.checks) :
                     checkGlobalStatus(q) = last.status
    /\ last.op = "healthCheck"
           => /\ last.status = Worst(StatusesOf(last.checks))
              /\ checkGlobalStatus(<<last.checks[2], last.checks[1]>>) = last.status

\* a degraded check ahead of an unhealthy one, answered UNHEALTHY
C37_Witness ==
    /\ last.op = "checkGlobalStatus"
    /\ Len(probe.checks) = MaxChecks
    /\ probe.checks[1].status = DEGRADED
    /\ probe.checks[2].status = HEALTHY
    /\ probe.checks[3].status = UNHEALTHY
    /\ last.status = UNHEALTHY

\* the share of the heap in use, from the sizes as reported
MoreThan(percent, heapUsed, heapTotal) == heapUsed * 100 > percent * heapTotal

CheckedMemory == last.op = "checkMemory"

\* C38: checkMemory reports DEGRADED when more than 80% and at most 90% of
\* the total heap is in use, UNHEALTHY when more than 90% is, and HEALTHY
\* otherwise.
C38_MemoryThresholds ==
    CheckedMemory
        => LET m == probe.memoryUsage
           IN last.status =
                  IF MoreThan(90, m.heapUsed, m.heapTotal) THEN UNHEALTHY
                  ELSE IF MoreThan(80, m.heapUsed, m.heapTotal) THEN DEGRADED
                  ELSE HEALTHY

\* what the code does with a heap of a megabyte or more, no more in use
\* than there is: the quotient of the two sizes is divided by 100, stays
\* below 80, and the status is HEALTHY
C38_AlwaysHealthy == CheckedMemory => last.status = HEALTHY

====
